---- MODULE Spec2Model ----
(***************************************************************************)
(* Model of the flowengine workflow executor                               *)
(* (crates/flowruntime/src/executor.rs) together with the event bus        *)
(* (crates/flowcore/src/events/base.rs) it publishes to.                   *)
(*                                                                         *)
(* One call of WorkflowExecutor::execute is modelled: the scheduler is a   *)
(* sequential process whose position is pc, every spawned node task is a   *)
(* process of its own (tokio::spawn) that keeps running after the          *)
(* scheduler has dropped its JoinHandle.                                   *)
(***************************************************************************)
EXTENDS Integers, Sequences, FiniteSets, TLC

\* ------------------------------------------------------------------ bounds
\* largest parallelism cap the executor is constructed with
MaxParallel == 2
\* largest number of NodeEvents the node tasks of a run emit
MaxNodeEvents == 1
\* largest number of nodes of a workflow whose type is not "ok"
MaxFaulty == 1
\* largest number of register calls made on a registry
MaxRegistered == 2
\* the capacity the event bus is built with (RuntimeConfig.event_buffer_size)
BusCapacity == 2
\* largest number of events handed to emit
MaxEmits == 4

\* ------------------------------------------------------------- vocabulary
\* NodeId::nil(), the key the initial inputs are stored under
NIL == 0
\* the execution_id of the modelled run (ExecutionId::new_v4())
ExecId == 1
\* "no error" among error names
NONE == "none"
EmptyMap == <<>>

\* The node types of the model.  The registry holds a factory for every
\* type but "unknown"; the factory of "bad.factory" fails in create, the
\* node built for "bad.init" fails in initialize; the nodes built for "ok",
\* "fail" and "panic" return Ok, return Err and panic in execute.
NodeTypes == {"ok", "fail", "panic", "unknown", "bad.factory", "bad.init"}
RegisteredTypes == NodeTypes \ {"unknown"}

Conn(f, fp, t, tp) == [from_node |-> f, from_port |-> fp, to_node |-> t, to_port |-> tp]

\* The graph shapes workflows are drawn from (node ids in declaration order,
\* connections in declaration order).
Shapes ==
  { [ids |-> <<>>,           connections |-> <<>>],
    [ids |-> <<1>>,          connections |-> <<>>],
    [ids |-> <<1, 2>>,       connections |-> <<>>],
    [ids |-> <<1, 2>>,       connections |-> <<Conn(1, "out", 2, "in")>>],
    [ids |-> <<1, 2, 3>>,    connections |-> <<Conn(1, "out", 2, "in")>>],
    [ids |-> <<1, 2, 3, 4>>, connections |-> <<Conn(1, "out", 2, "in"), Conn(1, "out", 3, "in"),
                                               Conn(2, "out", 4, "a"), Conn(3, "out", 4, "b")>>],
    [ids |-> <<1, 2, 3>>,    connections |-> <<Conn(1, "out", 3, "in"), Conn(2, "out", 3, "in"),
                                               Conn(1, "nope", 3, "in"), Conn(1, "out", 3, "aux"),
                                               Conn(2, "nope", 3, "message")>>],
    [ids |-> <<1, 2>>,       connections |-> <<Conn(1, "out", 2, "in"), Conn(2, "out", 1, "in")>>],
    [ids |-> <<1>>,          connections |-> <<Conn(1, "out", 1, "in")>>],
    [ids |-> <<1>>,          connections |-> <<Conn(1, "out", 2, "in")>>] }

ErrorHandlings == {"StopWorkflow", "ContinueOnError", "RetryWorkflow"}

Range(s) == {s[i] : i \in DOMAIN s}

\* all orders a set can be iterated in
Perms(S) == {s \in [1..Cardinality(S) -> S] : \A i, j \in DOMAIN s : s[i] = s[j] => i = j}

VARIABLES
  workflow,        \* the Workflow handed to execute
  max_parallel,    \* WorkflowExecutor.max_parallel
  initial_inputs,  \* the initial inputs handed to execute
  pc,              \* position of the execute call
  events,          \* every event sent on the bus, in emission order
  graph,           \* the DiGraph built by build_graph
  node_instances,  \* ids of the instances not yet moved into a task
  completed,       \* execute_dag: completed
  node_outputs,    \* execute_dag: node_outputs
  running,         \* execute_dag: running (node ids of the JoinHandles held)
  task,            \* per node: the spawned task
  result           \* what execute returned

\* the node registry (registry.rs)
VARIABLES
  factories,       \* NodeRegistry.factories: node_type -> factory
  registered,      \* the factories handed to register so far, in call order
  registry_ret     \* the last registry call and what it returned

\* the event bus (events/base.rs) with an emitter and its receivers
VARIABLES
  emitted,         \* every event handed to emit, in call order
  sent,            \* the values the broadcast channel took, in order; it
                   \* retains the last BusCapacity of them
  receivers,       \* per receiver id: the Receiver and what its owner got
  emitter          \* the caller of emit: "running", then "Ok" or "Err"

\* the runtime (runtime.rs) with the callers of its methods
VARIABLES
  workflows,       \* FlowRuntime.workflows: workflow id -> Workflow
  registrations,   \* the workflows inserted so far, in insertion order
  lock,            \* the RwLock around workflows: holders and waiters
  calls,           \* per caller: the call it makes and the locals of its run
  published,       \* every event the runs sent on the shared bus, in order,
                   \* each with the caller whose run sent it
  drawn            \* the number of execution ids drawn so far

\* the HTTP server (flowserver/src/main.rs) with a client of its API
VARIABLES
  app_workflows,   \* AppState.workflows: workflow id -> Workflow
  request,         \* the request the server is handling, if any
  answers          \* the requests answered so far with their responses

\* The components are checked one at a time: a specification moves the
\* variables of its component and leaves the others at their initial values.
execvars == <<workflow, max_parallel, initial_inputs, pc, events, graph,
              node_instances, completed, node_outputs, running, task, result>>
regvars == <<factories, registered, registry_ret>>
busvars == <<emitted, sent, receivers, emitter>>
rtvars == <<workflows, registrations, lock, calls, published, drawn>>
servervars == <<app_workflows, request, answers>>

\* what a step of an execute call leaves alone
outside == <<regvars, busvars, rtvars, servervars>>
\* what a registry call leaves alone
notregistry == <<execvars, busvars, rtvars, servervars>>
\* what a step of the bus, of an emitter or of a receiver leaves alone
notbus == <<execvars, regvars, rtvars, servervars>>
\* what a step of a runtime call leaves alone
notruntime == <<execvars, regvars, busvars, servervars>>
\* what a step of the server leaves alone besides the runtime it calls
notserver == <<execvars, regvars, busvars>>

vars == <<execvars, regvars, busvars, rtvars, servervars>>

\* ------------------------------------------------- workflow.rs, registry.rs
\* Workflow::find_node: the first NodeSpec with this id, as an Option (a set
\* of at most one element)
find_node(wf, id) ==
  {wf.nodes[i] : i \in {k \in DOMAIN wf.nodes :
                          /\ wf.nodes[k].id = id
                          /\ \A j \in DOMAIN wf.nodes : wf.nodes[j].id = id => k <= j}}

\* mutant: a type without a factory gets a default node
create_node_Default(node_type) ==
  IF node_type = "bad.factory" THEN "Invalid" ELSE NONE

\* NodeRegistry::create_node: the error it returns, or NONE when it builds a node
create_node(node_type) ==
  IF node_type \notin RegisteredTypes THEN "UnknownNodeType"
  ELSE IF node_type = "bad.factory" THEN "Invalid"
  ELSE NONE

\* mutant: the result of initialize is not looked at
initialize_Ignored(node_type) == TRUE

\* Node::initialize of the instance built for a type: TRUE when it succeeds
initialize(node_type) == node_type # "bad.init"

\* what Node::execute of the instance built for a type ends with
ExecuteOutcome(node_type) ==
  CASE node_type = "ok"    -> "ok"
    [] node_type = "fail"  -> "err"
    [] node_type = "panic" -> "panic"
    [] OTHER               -> "ok"

\* the outputs a successful node returns: one port, a value naming the node
NodeOutput(id) == ("out" :> 10 + id)

\* -------------------------------------------------------------- build_graph
Endpoints(conns) == UNION {{conns[i].from_node, conns[i].to_node} : i \in DOMAIN conns}

Edges(conns) == {<<conns[i].from_node, conns[i].to_node>> : i \in DOMAIN conns}

\* petgraph::algo::toposort fails exactly when the graph has a cycle (a
\* self-loop included): strip nodes without incoming edges until none is left
RECURSIVE HasCycle(_, _)
HasCycle(ns, es) ==
  LET free == {n \in ns : ~\E e \in es : e[2] = n /\ e[1] \in ns}
  IN  IF ns = {} THEN FALSE
      ELSE IF free = {} THEN TRUE
      ELSE HasCycle(ns \ free, es)

\* mutant: the graph is built without the topological sort
build_graph_NoToposort(wf) ==
  LET ids == {wf.nodes[i].id : i \in DOMAIN wf.nodes}
      es  == Edges(wf.connections)
  IN  IF ~(Endpoints(wf.connections) \subseteq ids)
        THEN [err |-> "NodeNotFound", graph |-> [nodes |-> {}, edges |-> {}]]
      ELSE [err |-> NONE, graph |-> [nodes |-> ids, edges |-> es]]

\* build_graph: [err, graph]
build_graph(wf) ==
  LET ids == {wf.nodes[i].id : i \in DOMAIN wf.nodes}
      es  == Edges(wf.connections)
  IN  IF ~(Endpoints(wf.connections) \subseteq ids)
        THEN [err |-> "NodeNotFound", graph |-> [nodes |-> {}, edges |-> {}]]
      ELSE IF HasCycle(ids, es)
        THEN [err |-> "CyclicDependency", graph |-> [nodes |-> {}, edges |-> {}]]
      ELSE [err |-> NONE, graph |-> [nodes |-> ids, edges |-> es]]

\* ------------------------------------------------------- instantiation loop
\* lines 48-60: the error of the first NodeSpec, in declaration order, whose
\* creation or initialize fails; NONE when every instance is built
RECURSIVE CreateNodes(_)
CreateNodes(specs) ==
  IF specs = <<>> THEN NONE
  ELSE LET t == Head(specs).node_type
       IN  IF create_node(t) # NONE THEN create_node(t)
           ELSE IF ~initialize(t) THEN "Execution"
           ELSE CreateNodes(Tail(specs))

\* --------------------------------------------------------- find_ready_nodes
Predecessors(g, n) == {e[1] : e \in {x \in g.edges : x[2] = n}}

\* mutant: the neighbours are taken in the Outgoing direction
dependencies_met_Outgoing(g, comp, n) == {e[2] : e \in {x \in g.edges : x[1] = n}} \subseteq comp

\* lines 295-300: every Incoming neighbour is completed
dependencies_met(g, comp, n) == Predecessors(g, n) \subseteq comp

\* the nodes pushed to the ready Vec: those of node_to_index that are not
\* completed and whose dependencies are all completed
find_ready_nodes(g, comp) ==
  {n \in g.nodes : n \notin comp /\ dependencies_met(g, comp, n)}

\* ------------------------------------------------------ collect_node_inputs
\* mutant: a routed value is stored under the name of the source port
RECURSIVE RouteConnections_KeyFromPort(_, _, _, _)
RouteConnections_KeyFromPort(conns, node_id, outs, inputs) ==
  IF conns = <<>> THEN inputs
  ELSE LET c == Head(conns)
           hit == /\ c.to_node = node_id
                  /\ c.from_node \in DOMAIN outs
                  /\ c.from_port \in DOMAIN outs[c.from_node]
       IN  RouteConnections_KeyFromPort(Tail(conns), node_id, outs,
             IF hit THEN (c.from_port :> outs[c.from_node][c.from_port]) @@ inputs
                    ELSE inputs)

\* mutant: a port that already has a value keeps it
RECURSIVE RouteConnections_FirstWins(_, _, _, _)
RouteConnections_FirstWins(conns, node_id, outs, inputs) ==
  IF conns = <<>> THEN inputs
  ELSE LET c == Head(conns)
           hit == /\ c.to_node = node_id
                  /\ c.from_node \in DOMAIN outs
                  /\ c.from_port \in DOMAIN outs[c.from_node]
       IN  RouteConnections_FirstWins(Tail(conns), node_id, outs,
             IF hit THEN inputs @@ (c.to_port :> outs[c.from_node][c.from_port])
                    ELSE inputs)

\* lines 332-341: the connections are walked in declaration order, a value
\* the source recorded is inserted under to_port and replaces an earlier one
RECURSIVE RouteConnections(_, _, _, _)
RouteConnections(conns, node_id, outs, inputs) ==
  IF conns = <<>> THEN inputs
  ELSE LET c == Head(conns)
           hit == /\ c.to_node = node_id
                  /\ c.from_node \in DOMAIN outs
                  /\ c.from_port \in DOMAIN outs[c.from_node]
       IN  RouteConnections(Tail(conns), node_id, outs,
             IF hit THEN (c.to_port :> outs[c.from_node][c.from_port]) @@ inputs
                    ELSE inputs)

\* mutant: the initial inputs are handed to every node
collect_node_inputs_AlwaysInitial(node_id, wf, outs) ==
  RouteConnections(wf.connections, node_id, outs,
                   IF NIL \in DOMAIN outs THEN outs[NIL] ELSE EmptyMap)

\* lines 311-344: the inputs of a node: the initial inputs when no connection
\* ends at it, then the routed values
collect_node_inputs(node_id, wf, outs) ==
  LET has_predecessors == \E i \in DOMAIN wf.connections : wf.connections[i].to_node = node_id
      start == IF ~has_predecessors /\ NIL \in DOMAIN outs THEN outs[NIL] ELSE EmptyMap
  IN  RouteConnections(wf.connections, node_id, outs, start)

\* ------------------------------------------------------------------ events
\* mutant: WorkflowStarted is emitted under an id of its own
WorkflowStarted_OwnId == [type |-> "WorkflowStarted", execution_id |-> ExecId + 1]

WorkflowStarted == [type |-> "WorkflowStarted", execution_id |-> ExecId]
WorkflowCompleted(success) ==
  [type |-> "WorkflowCompleted", execution_id |-> ExecId, success |-> success]
NodeStarted(n, t) ==
  [type |-> "NodeStarted", execution_id |-> ExecId, node_id |-> n, node_type |-> t]
NodeCompleted(n, outputs) ==
  [type |-> "NodeCompleted", execution_id |-> ExecId, node_id |-> n, outputs |-> outputs]
NodeFailed(n, error) ==
  [type |-> "NodeFailed", execution_id |-> ExecId, node_id |-> n, error |-> error]
NodeEvent(n) ==
  [type |-> "NodeEvent", execution_id |-> ExecId, node_id |-> n]

\* ------------------------------------------------------------------- state
AllIds == UNION {Range(sh.ids) : sh \in Shapes}

\* lines 167-174: what a spawned task holds of its NodeContext: the inputs
\* and the state of its cancellation token (CancellationToken::new() is a
\* token of its own, not cancelled)
NoTask == [state |-> "none", inputs |-> EmptyMap, cancelled |-> FALSE]

Pending == [status |-> "pending"]
\* mutant: the result is returned with an empty output table
OkResult_NoOutputs(outs, comp, wf) ==
  [status |-> "Ok", execution_id |-> ExecId, outputs |-> EmptyMap,
   completed_nodes |-> Cardinality(comp), total_nodes |-> Len(wf.nodes)]

\* lines 272-277: the ExecutionResult of a run whose loop ended
OkResult(outs, comp, wf) ==
  [status |-> "Ok", execution_id |-> ExecId, outputs |-> outs,
   completed_nodes |-> Cardinality(comp), total_nodes |-> Len(wf.nodes)]
ErrResult(kind, n) == [status |-> "Err", error |-> kind, node_id |-> n]

\* Option<u64>: a set of at most one element
TimeoutChoices == {{}, {1500}}
InputChoices == {EmptyMap, ("message" :> 7)}

\* the locals of an execute call that has not begun
ExecStart ==
  /\ pc = "idle"
  /\ events = <<>>
  /\ graph = [nodes |-> {}, edges |-> {}]
  /\ node_instances = {}
  /\ completed = {}
  /\ node_outputs = EmptyMap
  /\ running = {}
  /\ task = [n \in AllIds |-> NoTask]
  /\ result = Pending

\* no execute call is made: the variables of the executor stay as they are
ExecIdle ==
  /\ workflow = [nodes |-> <<>>, connections |-> <<>>,
                 settings |-> [max_execution_time_ms |-> {}, on_error |-> "StopWorkflow"]]
  /\ max_parallel = 0
  /\ initial_inputs = EmptyMap
  /\ ExecStart

\* ------------------------------------------------------------ NodeRegistry
\* The factories of the model: a factory names its node_type, tag tells the
\* factories of one type apart, creates says whether its create succeeds.
FactoryTypes == {"a", "b"}
FactoryTags == {1, 2}
Factories == [node_type : FactoryTypes, tag : FactoryTags, creates : BOOLEAN]

NoCall == [op |-> "none"]

\* NodeRegistry::new
RegistryInit ==
  /\ factories = EmptyMap
  /\ registered = <<>>
  /\ registry_ret = NoCall

\* ---------------------------------------------------------------- EventBus
\* the receivers of the model: one and another
ReceiverIds == {1, 2}

\* a receiver nobody created yet
NoReceiver == [state |-> "none", owner |-> "none", next |-> 0, since |-> 0, got |-> <<>>]

\* EventBus::new: broadcast::channel(capacity), its first receiver dropped
BusInit ==
  /\ emitted = <<>>
  /\ sent = <<>>
  /\ receivers = [r \in ReceiverIds |-> NoReceiver]
  /\ emitter = "running"

\* ------------------------------------------------------------- FlowRuntime
\* the callers of the model: two that each make one execute_workflow or
\* execute call, and one that makes the register_workflow calls
CallerIds == {"first", "second"}
Registrar == "registrar"

\* the locals of an execute call nobody made
NoRun ==
  [pc |-> "none", execution_id |-> 0, graph |-> [nodes |-> {}, edges |-> {}],
   node_instances |-> {}, completed |-> {}, node_outputs |-> EmptyMap,
   running |-> {}, task |-> EmptyMap, result |-> Pending]

\* a caller that has made no call
NoCaller == [op |-> "none", pc |-> "none", arg |-> NONE, inputs |-> EmptyMap,
             workflow |-> NONE, seen |-> 0, run |-> NoRun, ret |-> Pending]

\* the RwLock, nobody holding it or waiting for it
Unlocked == [readers |-> {}, writer |-> {}, waiting |-> <<>>]

\* FlowRuntime::new, lines 21-43: no workflow registered
RuntimeInit ==
  /\ workflows = EmptyMap
  /\ registrations = <<>>
  /\ lock = Unlocked
  /\ calls = [c \in CallerIds \cup {Registrar} |-> NoCaller]
  /\ published = <<>>
  /\ drawn = 0

\* ------------------------------------------------------------- flowserver
\* no request is being handled
NoRequest == [kind |-> "none"]

\* main: the AppState of a server that has answered nothing yet
ServerInit ==
  /\ app_workflows = EmptyMap
  /\ request = NoRequest
  /\ answers = <<>>

\* every component in its initial state, no execute call made
Idle == ExecIdle /\ RegistryInit /\ BusInit /\ RuntimeInit /\ ServerInit

Init ==
  /\ \E sh \in Shapes, oe \in ErrorHandlings, ms \in TimeoutChoices :
       \E types \in [DOMAIN sh.ids -> NodeTypes] :
         /\ Cardinality({i \in DOMAIN types : types[i] # "ok"}) <= MaxFaulty
         /\ workflow = [nodes |-> [i \in DOMAIN sh.ids |-> [id |-> sh.ids[i], node_type |-> types[i]]],
                        connections |-> sh.connections,
                        settings |-> [max_execution_time_ms |-> ms, on_error |-> oe]]
  /\ max_parallel \in 0..MaxParallel
  /\ initial_inputs \in InputChoices
  /\ ExecStart
  /\ RegistryInit
  /\ BusInit
  /\ RuntimeInit
  /\ ServerInit

\* ------------------------------------------------------ execute, lines 33-46
\* emit WorkflowStarted, then build the graph; a graph error returns at once
ExecuteBegin ==
  /\ pc = "idle"
  /\ LET b == build_graph(workflow)
     IN  /\ events' = Append(events, WorkflowStarted)
         /\ graph' = b.graph
         /\ IF b.err # NONE
              THEN pc' = "returned" /\ result' = ErrResult(b.err, NIL)
              ELSE pc' = "instantiate" /\ result' = result
  /\ UNCHANGED <<workflow, max_parallel, initial_inputs, node_instances,
                 completed, node_outputs, running, task>>
  /\ UNCHANGED outside

\* -------------------------------------- execute, lines 48-70 and 125-140
\* build and initialize every instance; a failure returns at once; otherwise
\* enter execute_dag: the initial inputs, when there are any, are stored
\* under NodeId::nil()
Instantiate ==
  /\ pc = "instantiate"
  /\ LET e == CreateNodes(workflow.nodes)
     IN  IF e # NONE
           THEN /\ pc' = "returned"
                /\ result' = ErrResult(e, NIL)
                /\ UNCHANGED <<node_instances, node_outputs>>
           ELSE /\ pc' = "schedule"
                /\ result' = result
                /\ node_instances' = graph.nodes
                /\ node_outputs' = IF DOMAIN initial_inputs # {}
                                     THEN (NIL :> initial_inputs)
                                     ELSE EmptyMap
  /\ UNCHANGED <<workflow, max_parallel, initial_inputs, events, graph, completed,
                 running, task>>
  /\ UNCHANGED outside

\* ------------------------------------------------ execute_dag, lines 147-211
\* mutant: the cap test is off by one
AtCapacity_OffByOne(run, cap) == Cardinality(run) > cap

\* line 148: the cap test in front of every spawn
AtCapacity(run, cap) == Cardinality(run) >= cap

\* mutant: the instance of a spawned node stays in the table
node_instances_remove_Kept(instances, node_id) == instances

\* line 152, node_instances.remove(&node_id): the instance leaves the table
node_instances_remove(instances, node_id) == instances \ {node_id}

\* one pass over the ready nodes; st is what the pass has done so far
RECURSIVE SpawnLoop(_, _)
SpawnLoop(ready, st) ==
  IF ready = <<>> THEN st
  ELSE LET node_id == Head(ready)
           node_spec == find_node(workflow, node_id)
       IN  IF AtCapacity(st.running, max_parallel) THEN st
           ELSE IF node_spec = {} \/ node_id \notin st.node_instances
             THEN [st EXCEPT !.err = ErrResult("NodeNotFound", node_id)]
           ELSE SpawnLoop(Tail(ready),
                  [st EXCEPT
                     !.node_instances = node_instances_remove(@, node_id),
                     !.events = Append(@, NodeStarted(node_id,
                                            (CHOOSE x \in node_spec : TRUE).node_type)),
                     !.running = @ \cup {node_id},
                     !.task[node_id] =
                        [state |-> "executing",
                         inputs |-> collect_node_inputs(node_id, workflow, node_outputs),
                         cancelled |-> FALSE]])

\* lines 142-216: find the ready nodes, spawn up to the cap, leave the loop
\* when nothing is running.  find_ready_nodes fills the ready Vec in the
\* iteration order of the node_to_index HashMap, which is arbitrary: every
\* order of the ready nodes is taken
Schedule ==
  /\ pc = "schedule"
  /\ \E ready \in Perms(find_ready_nodes(graph, completed)) :
     LET st == SpawnLoop(ready, [running |-> running, node_instances |-> node_instances,
                                 events |-> events, task |-> task, err |-> Pending])
     IN  /\ running' = st.running
         /\ node_instances' = st.node_instances
         /\ events' = st.events
         /\ task' = st.task
         /\ IF st.err.status = "Err"
              THEN pc' = "complete" /\ result' = st.err
            ELSE IF st.running = {}
              THEN pc' = "complete" /\ result' = OkResult(node_outputs, completed, workflow)
            ELSE pc' = "wait" /\ result' = result
  /\ UNCHANGED <<workflow, max_parallel, initial_inputs, graph, completed,
                 node_outputs>>
  /\ UNCHANGED outside

\* ------------------------------------------------ execute_dag, lines 218-269
NodeErr(kind, seconds) == [kind |-> kind, seconds |-> seconds]

\* mutant: the Timeout error carries the bound in milliseconds
ExecResult_TimeoutInMillis(n) ==
  CASE task[n].state = "ok"      -> [ok |-> TRUE, outputs |-> NodeOutput(n)]
    [] task[n].state = "err"     -> [ok |-> FALSE, error |-> NodeErr("ExecutionFailed", 0)]
    [] task[n].state = "timeout" ->
         [ok |-> FALSE,
          error |-> NodeErr("Timeout",
                      CHOOSE ms \in workflow.settings.max_execution_time_ms : TRUE)]

\* mutant: a node that returned an error is handed on as successful
ExecResult_ErrAsOk(n) ==
  CASE task[n].state = "ok"      -> [ok |-> TRUE, outputs |-> NodeOutput(n)]
    [] task[n].state = "err"     -> [ok |-> TRUE, outputs |-> NodeOutput(n)]
    [] task[n].state = "timeout" ->
         [ok |-> FALSE,
          error |-> NodeErr("Timeout",
                      (CHOOSE ms \in workflow.settings.max_execution_time_ms : TRUE) \div 1000)]

\* the (node_id, exec_result) a finished task hands to the scheduler
ExecResult(n) ==
  CASE task[n].state = "ok"      -> [ok |-> TRUE, outputs |-> NodeOutput(n)]
    [] task[n].state = "err"     -> [ok |-> FALSE, error |-> NodeErr("ExecutionFailed", 0)]
    [] task[n].state = "timeout" ->
         [ok |-> FALSE,
          error |-> NodeErr("Timeout",
                      (CHOOSE ms \in workflow.settings.max_execution_time_ms : TRUE) \div 1000)]

\* mutant: RetryWorkflow settles the failed node and goes on
OnError_RetrySettles(policy) ==
  CASE policy = "StopWorkflow"    -> "return"
    [] policy = "ContinueOnError" -> "settle"
    [] policy = "RetryWorkflow"   -> "settle"

\* mutant: StopWorkflow settles the failed node and goes on
OnError_StopSettles(policy) ==
  CASE policy = "StopWorkflow"    -> "settle"
    [] policy = "ContinueOnError" -> "settle"
    [] policy = "RetryWorkflow"   -> "return"

\* lines 249-266: what the scheduler does with a failed node under each policy
OnError(policy) ==
  CASE policy = "StopWorkflow"    -> "return"
    [] policy = "ContinueOnError" -> "settle"
    [] policy = "RetryWorkflow"   -> "return"

\* mutant: the join handle of a task never resolves
Finished_Never(n) == FALSE

Finished(n) == task[n].state \in {"ok", "err", "timeout", "panic"}

\* running.next().await: take any finished task and handle its outcome
Collect ==
  /\ pc = "wait"
  /\ \E n \in running :
       /\ Finished(n)
       /\ running' = running \ {n}
       /\ IF task[n].state = "panic"
            THEN \* join error: the "?" returns without any event
                 /\ pc' = "complete"
                 /\ result' = ErrResult("Execution", NIL)
                 /\ UNCHANGED <<events, node_outputs, completed>>
          ELSE IF ExecResult(n).ok
            THEN /\ events' = Append(events, NodeCompleted(n, ExecResult(n).outputs))
                 /\ node_outputs' = (n :> ExecResult(n).outputs) @@ node_outputs
                 /\ completed' = completed \cup {n}
                 /\ pc' = "schedule"
                 /\ result' = result
          ELSE /\ events' = Append(events, NodeFailed(n, ExecResult(n).error))
               /\ node_outputs' = node_outputs
               /\ IF OnError(workflow.settings.on_error) = "return"
                    THEN /\ pc' = "complete"
                         /\ result' = ErrResult("Execution", n)
                         /\ completed' = completed
                    ELSE /\ pc' = "schedule"
                         /\ result' = result
                         /\ completed' = completed \cup {n}
  /\ UNCHANGED <<workflow, max_parallel, initial_inputs, graph,
                 node_instances, task>>
  /\ UNCHANGED outside

\* ------------------------------------------------------ execute, lines 72-83
\* emit WorkflowCompleted with success = result.is_ok() and return the result
Complete ==
  /\ pc = "complete"
  /\ events' = Append(events, WorkflowCompleted(result.status = "Ok"))
  /\ pc' = "returned"
  /\ UNCHANGED <<workflow, max_parallel, initial_inputs, graph,
                 node_instances, completed, node_outputs, running, task, result>>
  /\ UNCHANGED outside

\* ------------------------------------------------------------ node tasks
\* A spawned task runs on the tokio runtime on its own; the scheduler only
\* holds its JoinHandle, and dropping the handle does not stop the task.

\* mutant: the execute future of a node outlives the timeout
Emitting_AfterTimeout(n) == task[n].state \in {"executing", "timeout"}

\* lines 185-205: the future that runs node.execute(ctx), and with it the
\* emitter of its NodeContext, lives until execute ends or the timeout
\* wrapped around it drops it
Emitting(n) == task[n].state = "executing"

\* the node sends a NodeEvent through the emitter of its NodeContext
NodeEmit(n) ==
  /\ Emitting(n)
  /\ Len(SelectSeq(events, LAMBDA e : e.type = "NodeEvent")) < MaxNodeEvents
  /\ events' = Append(events, NodeEvent(n))
  /\ UNCHANGED <<workflow, max_parallel, initial_inputs, pc, graph,
                 node_instances, completed, node_outputs, running, task, result>>
  /\ UNCHANGED outside

\* node.execute(ctx) ends: it returns Ok, returns Err, or panics
NodeFinish(n) ==
  /\ task[n].state = "executing"
  /\ task' = [task EXCEPT ![n].state =
                ExecuteOutcome((CHOOSE x \in find_node(workflow, n) : TRUE).node_type)]
  /\ UNCHANGED <<workflow, max_parallel, initial_inputs, pc, events, graph,
                 node_instances, completed, node_outputs, running, result>>
  /\ UNCHANGED outside

\* lines 193-205: the timeout wrapped around the task elapses first
NodeTimeout(n) ==
  /\ task[n].state = "executing"
  /\ workflow.settings.max_execution_time_ms # {}
  /\ task' = [task EXCEPT ![n].state = "timeout"]
  /\ UNCHANGED <<workflow, max_parallel, initial_inputs, pc, events, graph,
                 node_instances, completed, node_outputs, running, result>>
  /\ UNCHANGED outside

Next ==
  \/ ExecuteBegin
  \/ Instantiate
  \/ Schedule
  \/ Collect
  \/ Complete
  \/ \E n \in AllIds : NodeEmit(n)
  \/ \E n \in AllIds : NodeFinish(n)
  \/ \E n \in AllIds : NodeTimeout(n)

Spec == Init /\ [][Next]_vars

\* ======================================================================
\* Properties
\* ======================================================================
EventsOf(type) == {i \in DOMAIN events : events[i].type = type}

\* positions of the events of one type about node n
NodeEventsOf(type, n) == {i \in EventsOf(type) : events[i].node_id = n}

TerminalEventsOf(n) == NodeEventsOf("NodeCompleted", n) \cup NodeEventsOf("NodeFailed", n)

StartedNodes == {events[i].node_id : i \in EventsOf("NodeStarted")}

FailedNodes == {events[i].node_id : i \in EventsOf("NodeFailed")}

WorkflowIds == {workflow.nodes[i].id : i \in DOMAIN workflow.nodes}

AllNodesOk == \A i \in DOMAIN workflow.nodes : workflow.nodes[i].node_type = "ok"

NoTimeout == workflow.settings.max_execution_time_ms = {}

Successors(g, n) == {e[2] : e \in {x \in g.edges : x[1] = n}}

\* the nodes reachable from n over one or more edges
RECURSIVE Reach(_, _, _)
Reach(g, frontier, seen) ==
  LET next == UNION {Successors(g, m) : m \in frontier} \ seen
  IN  IF next = {} THEN seen ELSE Reach(g, next, seen \cup next)

Descendants(g, n) == Reach(g, {n}, {})

\* ---------------------------------------------------------------------
\* C1: for every acyclic workflow with unique ids whose node types are all
\* registered and whose nodes all succeed (no timeout set), and every cap
\* >= 1, execute returns Ok with completed_nodes = total_nodes and
\* WorkflowCompleted reports success, whatever the completion order and
\* the iteration order of the ready nodes.
C1_AllOkRunCompletes ==
  (/\ pc = "returned"
   /\ max_parallel >= 1
   /\ build_graph(workflow).err = NONE
   /\ AllNodesOk
   /\ NoTimeout)
  => /\ result.status = "Ok"
     /\ result.completed_nodes = result.total_nodes
     /\ result.total_nodes = Len(workflow.nodes)
     /\ \E i \in EventsOf("WorkflowCompleted") : events[i].success

\* ---------------------------------------------------------------------
\* C2: a node is started only when every from_node of a connection into it
\* is in completed, and every predecessor's terminal event (the moment it
\* entered completed) precedes the node's NodeStarted, hence its own
\* terminal event.
C2_StartedAfterPredecessors ==
  \A i \in EventsOf("NodeStarted") :
    \A p \in Predecessors(graph, events[i].node_id) :
      /\ p \in completed
      /\ \E j \in TerminalEventsOf(p) : j < i
      /\ \A k \in TerminalEventsOf(events[i].node_id) :
           \A j \in TerminalEventsOf(p) : j < k

\* the join node of the diamond has been started and has completed
C2_Witness ==
  \E n \in StartedNodes :
    /\ Cardinality(Predecessors(graph, n)) = 2
    /\ n \in completed

\* ---------------------------------------------------------------------
\* C3: the running set never holds more tasks than the cap the executor
\* was constructed with.
C3_RunningWithinCap == Cardinality(running) <= max_parallel

\* two tasks are in flight under a cap of two
C3_Witness ==
  /\ max_parallel = 2
  /\ Cardinality(running) = 2
  /\ \A n \in running : task[n].state = "executing"
\* ---------------------------------------------------------------------
\* C4: every call of execute that has returned has emitted exactly one
\* WorkflowStarted and exactly one WorkflowCompleted, on every path.
C4_OneStartedOneCompleted ==
  pc = "returned"
  => /\ Cardinality(EventsOf("WorkflowStarted")) = 1
     /\ Cardinality(EventsOf("WorkflowCompleted")) = 1

\* ---------------------------------------------------------------------
\* C5: every started node gets exactly one NodeCompleted or NodeFailed,
\* also a node whose task was in flight when the failure of another node
\* stopped the run: once execute has returned with a node's failure and no
\* task is executing any more, every started node has its terminal event.
NodeStoppedRun ==
  /\ pc = "returned"
  /\ result.status = "Err"
  /\ result.error = "Execution"
  /\ result.node_id \in FailedNodes

C5_StartedNodesReachTerminalEvent ==
  (NodeStoppedRun /\ \A n \in AllIds : task[n].state # "executing")
  => \A n \in StartedNodes : Cardinality(TerminalEventsOf(n)) = 1

\* ---------------------------------------------------------------------
\* C6: WorkflowCompleted is the last event of its execution_id on the bus:
\* nothing carrying that execution_id follows it.
C6_WorkflowCompletedIsLast ==
  \A i \in EventsOf("WorkflowCompleted") :
    \A j \in DOMAIN events :
      (j > i) => events[j].execution_id # events[i].execution_id

\* ---------------------------------------------------------------------
\* C7: under StopWorkflow no NodeStarted follows a NodeFailed, and no
\* descendant of a failed node is ever started.
C7_StopWorkflowStartsNothingMore ==
  workflow.settings.on_error = "StopWorkflow"
  => \A i \in EventsOf("NodeFailed") :
       /\ \A j \in EventsOf("NodeStarted") : j < i
       /\ Descendants(graph, events[i].node_id) \cap StartedNodes = {}

\* a node with a dependent has failed under StopWorkflow and the run is over
C7_Witness ==
  /\ workflow.settings.on_error = "StopWorkflow"
  /\ pc = "returned"
  /\ \E n \in FailedNodes : Descendants(graph, n) # {}

\* ---------------------------------------------------------------------
\* C8: under ContinueOnError a failed node is in completed and has no entry
\* in the output table; when execute has returned, every node depending on
\* it whose predecessors are all settled has been started, and the result
\* counts the failed node in completed_nodes and has no outputs for it.
C8_ContinueOnErrorSettles ==
  workflow.settings.on_error = "ContinueOnError"
  => \A a \in FailedNodes :
       /\ a \in completed
       /\ a \notin DOMAIN node_outputs
       /\ pc = "returned"
          => /\ \A b \in Successors(graph, a) :
                  Predecessors(graph, b) \subseteq completed => b \in StartedNodes
             /\ result.status = "Ok"
             /\ result.completed_nodes = Cardinality(completed)
             /\ a \notin DOMAIN result.outputs

\* ---------------------------------------------------------------------
\* C9: under ContinueOnError a run in which a node ended in NodeFailed
\* finishes with WorkflowCompleted{success: false}.
C9_FailedNodeMeansNoSuccess ==
  (/\ workflow.settings.on_error = "ContinueOnError"
   /\ pc = "returned"
   /\ FailedNodes # {})
  => /\ EventsOf("WorkflowCompleted") # {}
     /\ \A i \in EventsOf("WorkflowCompleted") : ~events[i].success

\* ---------------------------------------------------------------------
\* C10: when a node's failure fails the run under StopWorkflow or
\* RetryWorkflow, the result execute returns carries the completed-node
\* count and the total-node count.
C10_FailedRunReportsCounts ==
  (/\ workflow.settings.on_error \in {"StopWorkflow", "RetryWorkflow"}
   /\ pc = "returned"
   /\ FailedNodes # {})
  => /\ {"completed_nodes", "total_nodes"} \subseteq DOMAIN result
     /\ result.completed_nodes = Cardinality(completed)
     /\ result.total_nodes = Len(workflow.nodes)

\* ---------------------------------------------------------------------
\* C11: the cancellation token of every node task is tied to the run: once
\* a node's failure has stopped the run under StopWorkflow, the token of
\* every task that is still executing is cancelled.
C11_StopCancelsInFlight ==
  (NodeStoppedRun /\ workflow.settings.on_error = "StopWorkflow")
  => \A n \in AllIds : task[n].state = "executing" => task[n].cancelled

\* ---------------------------------------------------------------------
\* the seconds a Timeout error carries for the bound of the workflow
TimeoutSeconds ==
  (CHOOSE ms \in workflow.settings.max_execution_time_ms : TRUE) \div 1000

\* the scheduler has applied the on_error policy to the failure of node n
FailureHandled(n) ==
  /\ Cardinality(NodeEventsOf("NodeFailed", n)) = 1
  /\ n \notin DOMAIN node_outputs
  /\ workflow.settings.on_error = "ContinueOnError" => n \in completed
  /\ workflow.settings.on_error \in {"StopWorkflow", "RetryWorkflow"}
       => /\ pc \in {"complete", "returned"}
          /\ result = ErrResult("Execution", n)
          /\ n \notin completed
          /\ pc = "returned"
               => /\ EventsOf("WorkflowCompleted") # {}
                  /\ \A i \in EventsOf("WorkflowCompleted") : ~events[i].success

HasMissingEndpoint == ~(Endpoints(workflow.connections) \subseteq WorkflowIds)

\* some node reaches itself over the connections
IsCyclic ==
  \E n \in WorkflowIds :
    n \in Descendants([nodes |-> WorkflowIds, edges |-> Edges(workflow.connections)], n)

\* the node types no instance can be built and initialized for
Defective(node_type) == node_type \in {"unknown", "bad.factory", "bad.init"}

\* the type of the first NodeSpec, in declaration order, that is defective
FirstDefect ==
  LET bad == {i \in DOMAIN workflow.nodes : Defective(workflow.nodes[i].node_type)}
  IN  IF bad = {} THEN NONE
      ELSE workflow.nodes[CHOOSE i \in bad : \A j \in bad : i <= j].node_type

NothingExecuted ==
  /\ StartedNodes = {}
  /\ \A n \in AllIds : task[n].state = "none"

\* C13: a workflow with a connection that names a missing node id is
\* rejected with NodeNotFound, one whose connections form a cycle (a
\* self-loop included) with CyclicDependency, one with a NodeSpec of an
\* unregistered type with UnknownNodeType (the defect execute meets first
\* decides the error: connection endpoints, then cycles, then the NodeSpecs
\* in declaration order); in each case no NodeStarted is emitted and no
\* execute is invoked.
C13_StructuralErrorsRejected ==
  /\ (pc = "returned" /\ HasMissingEndpoint)
       => result.status = "Err" /\ result.error = "NodeNotFound"
  /\ (pc = "returned" /\ ~HasMissingEndpoint /\ IsCyclic)
       => result.status = "Err" /\ result.error = "CyclicDependency"
  /\ (pc = "returned" /\ ~HasMissingEndpoint /\ ~IsCyclic /\ FirstDefect = "unknown")
       => result.status = "Err" /\ result.error = "UnknownNodeType"
  /\ (\/ HasMissingEndpoint
      \/ IsCyclic
      \/ \E i \in DOMAIN workflow.nodes : workflow.nodes[i].node_type = "unknown")
       => NothingExecuted

\* a workflow with a NodeSpec of an unregistered type has been rejected
C13_Witness ==
  /\ pc = "returned"
  /\ ~HasMissingEndpoint /\ ~IsCyclic
  /\ Len(workflow.nodes) >= 2
  /\ FirstDefect = "unknown"
  /\ result.error = "UnknownNodeType"
  /\ NothingExecuted

NodeEventTypes == {"NodeStarted", "NodeCompleted", "NodeFailed", "NodeEvent"}

InitializeFails == ~HasMissingEndpoint /\ ~IsCyclic /\ FirstDefect = "bad.init"

Spawned(n) == task[n].state # "none"

\* the positions of the connections into port p of node n
ConnectionsTo(n, p) ==
  {i \in DOMAIN workflow.connections :
     workflow.connections[i].to_node = n /\ workflow.connections[i].to_port = p}

\* connection i has a value to deliver: its from_node completed with
\* outputs that hold its from_port
HasValue(i) ==
  LET c == workflow.connections[i]
  IN  /\ c.from_node \in DOMAIN node_outputs
      /\ c.from_port \in DOMAIN node_outputs[c.from_node]

ValueOf(i) ==
  node_outputs[workflow.connections[i].from_node][workflow.connections[i].from_port]

Deliveries(n, p) == {i \in ConnectionsTo(n, p) : HasValue(i)}

ToPorts == {workflow.connections[i].to_port : i \in DOMAIN workflow.connections}

\* C17: when several connections target the same (to_node, to_port), the
\* started node's inputs[to_port] is the value of the last of them, in
\* declaration order, whose source port has a recorded value (absent when
\* none has), in whatever order the source nodes finished.
C17_LastConnectionWins ==
  \A n \in AllIds : \A p \in ToPorts :
    (Spawned(n) /\ Cardinality(ConnectionsTo(n, p)) >= 2)
    => IF Deliveries(n, p) = {}
         THEN p \notin DOMAIN task[n].inputs
         ELSE /\ p \in DOMAIN task[n].inputs
              /\ task[n].inputs[p] =
                   ValueOf(CHOOSE i \in Deliveries(n, p) : \A j \in Deliveries(n, p) : j <= i)

\* the source of the later connection finished first, and its value is the
\* one the target was started with
C17_Witness ==
  /\ Spawned(3)
  /\ Cardinality(Deliveries(3, "in")) = 2
  /\ \E i \in NodeEventsOf("NodeCompleted", 2) :
       \E j \in NodeEventsOf("NodeCompleted", 1) : i < j
  /\ task[3].inputs["in"] = 12

\* ---------------------------------------------------------------------
\* the positions of the connections that end at node n
ConnectionsInto(n) ==
  {i \in DOMAIN workflow.connections : workflow.connections[i].to_node = n}

\* C18: a started node with no inbound connection has exactly the initial
\* inputs as its inputs; a started node with at least one inbound
\* connection has only values routed from its sources, so none of the
\* initial inputs, also when a source failed under ContinueOnError and
\* routed nothing.
C18_InitialInputsOnlyForRoots ==
  \A n \in AllIds :
    Spawned(n)
    => IF ConnectionsInto(n) = {}
         THEN /\ DOMAIN task[n].inputs = DOMAIN initial_inputs
              /\ \A k \in DOMAIN initial_inputs : task[n].inputs[k] = initial_inputs[k]
         ELSE \A k \in DOMAIN task[n].inputs : Deliveries(n, k) # {}

\* with initial inputs given, a root has been started with them and, under
\* ContinueOnError, the target of a failed source without them
C18_Witness ==
  /\ DOMAIN initial_inputs # {}
  /\ workflow.settings.on_error = "ContinueOnError"
  /\ \E n \in AllIds :
       /\ Spawned(n)
       /\ ConnectionsInto(n) = {}
       /\ DOMAIN task[n].inputs = DOMAIN initial_inputs
  /\ \E n \in AllIds :
       /\ Spawned(n)
       /\ \E i \in ConnectionsInto(n) : workflow.connections[i].from_node \in FailedNodes
       /\ \E i \in ConnectionsInto(n) :
            workflow.connections[i].to_port \in DOMAIN initial_inputs
       /\ \A k \in DOMAIN initial_inputs : k \notin DOMAIN task[n].inputs

\* ---------------------------------------------------------------------
\* the nodes whose NodeCompleted has been emitted
CompletedOkNodes == {events[i].node_id : i \in EventsOf("NodeCompleted")}

\* C19: when execute returns Ok, the outputs of the result hold, for every
\* node that completed successfully, exactly the map its execute returned,
\* which is also the map in the node's NodeCompleted event.
C19_ResultHoldsReturnedOutputs ==
  (pc = "returned" /\ result.status = "Ok")
  => \A n \in AllIds :
       (Spawned(n) /\ task[n].state = "ok")
       => /\ n \in CompletedOkNodes
          /\ n \in DOMAIN result.outputs
          /\ result.outputs[n] = NodeOutput(n)
          /\ \A i \in NodeEventsOf("NodeCompleted", n) :
               events[i].outputs = result.outputs[n]

\* a run of several nodes has returned Ok with the outputs of two of them
C19_Witness ==
  /\ pc = "returned"
  /\ result.status = "Ok"
  /\ Cardinality(CompletedOkNodes) >= 2
  /\ \A n \in CompletedOkNodes : result.outputs[n] = NodeOutput(n)

\* ---------------------------------------------------------------------
\* the workflow nodes whose execute returned Ok and whose result the
\* scheduler has taken
SucceededNodes ==
  {n \in WorkflowIds : Spawned(n) /\ task[n].state = "ok" /\ n \in completed}

\* C20 (as stated): every key of the output table, and of the outputs of a
\* returned result, is the id of a workflow node that completed
\* successfully, whatever the initial inputs.
C20_OutputKeysAreSucceededNodes ==
  /\ DOMAIN node_outputs \subseteq SucceededNodes
  /\ (pc = "returned" /\ result.status = "Ok")
       => DOMAIN result.outputs \subseteq SucceededNodes

\* C20 (amended): every key of the output table, and of the outputs of a
\* returned result, is the id of a workflow node that completed
\* successfully or the nil id; the nil key is there exactly when the run
\* was given initial inputs, and holds them.  A node that failed, timed
\* out or never ran has no entry.
C20_OutputKeysAreSucceededNodesOrNil ==
  /\ DOMAIN node_outputs \subseteq SucceededNodes \cup {NIL}
  /\ NIL \in DOMAIN node_outputs
       => DOMAIN initial_inputs # {} /\ node_outputs[NIL] = initial_inputs
  /\ (pc \in {"schedule", "wait"} /\ DOMAIN initial_inputs # {})
       => NIL \in DOMAIN node_outputs
  /\ (pc = "returned" /\ result.status = "Ok")
       => /\ DOMAIN result.outputs \subseteq SucceededNodes \cup {NIL}
          /\ NIL \in DOMAIN result.outputs <=> DOMAIN initial_inputs # {}

\* a run with initial inputs has returned Ok under ContinueOnError with the
\* outputs of a node, the nil key, and no entry for the node that failed
C20_Witness ==
  /\ pc = "returned"
  /\ result.status = "Ok"
  /\ FailedNodes # {}
  /\ SucceededNodes # {}
  /\ DOMAIN result.outputs = SucceededNodes \cup {NIL}

\* ---------------------------------------------------------------------
\* The runs termination is checked for: every run of Init without initial
\* inputs, its node tasks sending no NodeEvent (neither the values handed to
\* the nodes nor the events they send are looked at by the loop).
LiveInit == Init /\ initial_inputs = EmptyMap

LiveNext ==
  \/ ExecuteBegin
  \/ Instantiate
  \/ Schedule
  \/ Collect
  \/ Complete
  \/ \E n \in AllIds : NodeFinish(n)
  \/ \E n \in AllIds : NodeTimeout(n)

\* Fair scheduling: the scheduler is a sequential task of the tokio runtime
\* that is not blocked at any of its steps but the await of running.next(),
\* which returns as soon as a task of running has finished; every spawned
\* node task is polled by the runtime until its execute ends.
LiveSpec ==
  /\ LiveInit
  /\ [][LiveNext]_vars
  /\ WF_vars(ExecuteBegin)
  /\ WF_vars(Instantiate)
  /\ WF_vars(Schedule)
  /\ WF_vars(Collect)
  /\ WF_vars(Complete)
  /\ \A n \in AllIds : WF_vars(NodeFinish(n))

\* C21: when every spawned node task eventually ends (returns, panics or
\* times out) and the scheduler is scheduled fairly, execute returns: with
\* the result of a loop that found nothing ready and nothing running, or
\* with an error.
C21_ExecuteReturns == <>(pc = "returned")

\* the loop of a run of several nodes ended with nothing ready and nothing
\* running
C21_Witness ==
  /\ pc = "returned"
  /\ result.status = "Ok"
  /\ running = {}
  /\ find_ready_nodes(graph, completed) = {}
  /\ Cardinality(completed) >= 3

\* ---------------------------------------------------------------------
\* C22: in the emission order of a run, the WorkflowStarted of an
\* execution_id precedes every other event that carries that execution_id:
\* it is the first event of the run and is emitted once.
C22_WorkflowStartedFirst ==
  \A i \in DOMAIN events :
    events[i].type # "WorkflowStarted"
    => \E j \in EventsOf("WorkflowStarted") :
         /\ j < i
         /\ events[j].execution_id = events[i].execution_id
         /\ \A k \in EventsOf("WorkflowStarted") :
              events[k].execution_id = events[i].execution_id => k = j

\* a run has emitted NodeStarted, a NodeEvent and a terminal event
C22_Witness ==
  /\ EventsOf("NodeStarted") # {}
  /\ EventsOf("NodeEvent") # {}
  /\ EventsOf("NodeFailed") # {}
  /\ EventsOf("WorkflowCompleted") # {}
  /\ events[1].type = "WorkflowStarted"

\* ---------------------------------------------------------------------
\* C23: the events about a node N come in the order NodeStarted(N), then
\* the NodeEvents of N, then the terminal NodeCompleted(N) or NodeFailed(N):
\* every NodeEvent and terminal event of N follows the one NodeStarted(N),
\* and no NodeEvent of N follows N's terminal event, also when that event
\* is the NodeFailed of a timeout.
C23_NodeEventOrder ==
  \A n \in AllIds :
    /\ \A i \in NodeEventsOf("NodeEvent", n) \cup TerminalEventsOf(n) :
         \E j \in NodeEventsOf("NodeStarted", n) : j < i
    /\ Cardinality(NodeEventsOf("NodeStarted", n)) <= 1
    /\ \A i \in NodeEventsOf("NodeEvent", n) :
         \A k \in TerminalEventsOf(n) : i < k

\* a node has sent a NodeEvent and then timed out
C23_Witness ==
  \E n \in AllIds :
    /\ NodeEventsOf("NodeEvent", n) # {}
    /\ \E k \in NodeEventsOf("NodeFailed", n) : events[k].error.kind = "Timeout"
    /\ pc = "returned"

\* ======================================================================
\* NodeRegistry (registry.rs)
\* ======================================================================
\* mutant: register keeps the factory a type already has
NodeRegistry_register_KeepFirst(fs, factory) == fs @@ (factory.node_type :> factory)

\* register, lines 59-63: HashMap::insert under factory.node_type()
NodeRegistry_register(fs, factory) == (factory.node_type :> factory) @@ fs

\* create_node, lines 66-76: look the type up, call create of its factory
NodeRegistry_create_node(fs, node_type) ==
  IF node_type \notin DOMAIN fs
    THEN [kind |-> "UnknownNodeType", node_type |-> node_type]
  ELSE IF ~fs[node_type].creates
    THEN [kind |-> "Invalid"]
  ELSE [kind |-> "Node", node_type |-> node_type, tag |-> fs[node_type].tag]

\* list_node_types, lines 79-81: the keys, in the iteration order of the map
NodeRegistry_list_node_types(fs) == Perms(DOMAIN fs)

Register(factory) ==
  /\ Len(registered) < MaxRegistered
  /\ factories' = NodeRegistry_register(factories, factory)
  /\ registered' = Append(registered, factory)
  /\ registry_ret' = [op |-> "register"]
  /\ UNCHANGED notregistry

CreateNode(node_type) ==
  /\ registry_ret' = [op |-> "create_node", node_type |-> node_type,
                      result |-> NodeRegistry_create_node(factories, node_type)]
  /\ UNCHANGED <<factories, registered, notregistry>>

ListNodeTypes ==
  /\ \E types \in NodeRegistry_list_node_types(factories) :
       registry_ret' = [op |-> "list_node_types", result |-> types]
  /\ UNCHANGED <<factories, registered, notregistry>>

RegistryNext ==
  \/ \E factory \in Factories : Register(factory)
  \/ \E node_type \in FactoryTypes : CreateNode(node_type)
  \/ ListNodeTypes

RegistrySpec == Idle /\ [][RegistryNext]_vars

\* the factory most recently handed to register under a type, as an Option
LastRegistered(node_type) ==
  {registered[i] : i \in {k \in DOMAIN registered :
                            /\ registered[k].node_type = node_type
                            /\ \A j \in DOMAIN registered :
                                 registered[j].node_type = node_type => j <= k}}

RegisteredNodeTypes == {registered[i].node_type : i \in DOMAIN registered}

\* C29: after any sequence of register calls, create_node(t) returns
\* UnknownNodeType(t) exactly when no factory was registered under t,
\* Invalid exactly when the create of the factory most recently registered
\* under t fails, and otherwise the node built by that factory;
\* list_node_types returns each registered type exactly once.
C29_RegistryResolvesLastFactory ==
  /\ registry_ret.op = "create_node"
       => LET t == registry_ret.node_type
              r == registry_ret.result
              last == LastRegistered(t)
          IN  /\ (r.kind = "UnknownNodeType") <=> (last = {})
              /\ r.kind = "UnknownNodeType" => r.node_type = t
              /\ \A f \in last :
                   /\ (r.kind = "Invalid") <=> ~f.creates
                   /\ f.creates => r = [kind |-> "Node", node_type |-> t, tag |-> f.tag]
  /\ registry_ret.op = "list_node_types"
       => /\ Range(registry_ret.result) = RegisteredNodeTypes
          /\ Len(registry_ret.result) = Cardinality(RegisteredNodeTypes)

\* create_node has built a node with the second factory registered under
\* its type, the first being another one whose create fails
C29_Witness ==
  /\ Len(registered) = 2
  /\ registered[1].node_type = registered[2].node_type
  /\ registered[1].tag # registered[2].tag
  /\ ~registered[1].creates
  /\ registry_ret.op = "create_node"
  /\ registry_ret.node_type = registered[2].node_type
  /\ registry_ret.result.kind = "Node"
  /\ registry_ret.result.tag = registered[2].tag

\* ======================================================================
\* EventBus (events/base.rs) on tokio::sync::broadcast
\* ======================================================================
ActiveReceivers == {r \in ReceiverIds : receivers[r].state = "active"}

\* Sender::send: with no receiver the value is handed back as an error and
\* not stored; otherwise it is stored behind the values sent before
broadcast_send(log, receiver_count, event) ==
  [ok |-> receiver_count > 0,
   sent |-> IF receiver_count > 0 THEN Append(log, event) ELSE log]

\* mutant: the error of send is handed on to the caller of emit
EventBus_emit_Propagates(log, receiver_count, event) ==
  [failed |-> ~broadcast_send(log, receiver_count, event).ok,
   sent |-> broadcast_send(log, receiver_count, event).sent]

\* EventBus::emit and EventEmitter::emit, lines 83-90 and 135-137:
\* let _ = self.sender.send(event)
EventBus_emit(log, receiver_count, event) ==
  [failed |-> FALSE, sent |-> broadcast_send(log, receiver_count, event).sent]

\* mutant: a new receiver starts at the oldest value the channel retains
EventBus_subscribe_Oldest(log) ==
  IF Len(log) > BusCapacity THEN Len(log) - BusCapacity ELSE 0

\* EventBus::subscribe, lines 131-133: Sender::subscribe, the new receiver
\* starts behind the last value sent
EventBus_subscribe(log) == Len(log)

\* the position of the oldest value the channel retains
Oldest(log) == IF Len(log) > BusCapacity THEN Len(log) - BusCapacity ELSE 0

\* Receiver::recv of a receiver at position next that has a result at hand:
\* Lagged(missed) when values behind next were overwritten, else the next value
broadcast_recv(log, next) ==
  IF next < Oldest(log)
    THEN [item |-> [kind |-> "Lagged", missed |-> Oldest(log) - next], next |-> Oldest(log)]
    ELSE [item |-> [kind |-> "Ok", event |-> log[next + 1]], next |-> next + 1]

\* the owners of a receiver: "cursor" calls recv and goes on whatever it
\* returns; the WebSocket forwarder of the server (flowserver main.rs
\* websocket_events) and the event listener of the CLI (flowcli main.rs
\* run_workflow) are loops around recv
Consumers == {"websocket_events", "run_workflow"}
Owners == {"cursor"} \cup Consumers

\* flowserver main.rs 199-211 (Err(_) => break) and flowcli main.rs 157
\* (while let Ok(event) = events.recv().await): a consumer goes on after Ok
\* and leaves its loop after any error of recv
ConsumerGoesOn(owner, item) == owner \notin Consumers \/ item.kind = "Ok"

\* the caller hands its next event to emit; the events are numbered
Emit ==
  /\ emitter = "running"
  /\ Len(emitted) < MaxEmits
  /\ LET event == Len(emitted) + 1
         r == EventBus_emit(sent, Cardinality(ActiveReceivers), event)
     IN  /\ emitted' = Append(emitted, event)
         /\ sent' = r.sent
         /\ emitter' = IF r.failed THEN "Err"
                       ELSE IF event = MaxEmits THEN "Ok" ELSE "running"
  /\ UNCHANGED <<receivers, notbus>>

Subscribe(r, owner) ==
  /\ receivers[r].state = "none"
  /\ receivers' = [receivers EXCEPT ![r] =
                     [state |-> "active", owner |-> owner, next |-> EventBus_subscribe(sent),
                      since |-> Len(emitted), got |-> <<>>]]
  /\ UNCHANGED <<emitted, sent, emitter, notbus>>

\* recv returns to the owner of r; a consumer that leaves its loop drops
\* its receiver
Recv(r) ==
  /\ receivers[r].state = "active"
  /\ receivers[r].next < Len(sent)
  /\ LET res == broadcast_recv(sent, receivers[r].next)
     IN  receivers' = [receivers EXCEPT
                         ![r].next = res.next,
                         ![r].got = Append(@, res.item),
                         ![r].state = IF ConsumerGoesOn(receivers[r].owner, res.item)
                                        THEN "active" ELSE "stopped"]
  /\ UNCHANGED <<emitted, sent, emitter, notbus>>

\* the owner drops its receiver (the WebSocket client went away)
DropReceiver(r) ==
  /\ receivers[r].state = "active"
  /\ receivers' = [receivers EXCEPT ![r].state = "dropped"]
  /\ UNCHANGED <<emitted, sent, emitter, notbus>>

BusNext ==
  \/ Emit
  \/ \E r \in ReceiverIds, owner \in Owners : Subscribe(r, owner)
  \/ \E r \in ReceiverIds : Recv(r)
  \/ \E r \in ReceiverIds : DropReceiver(r)

BusSpec == Idle /\ [][BusNext]_vars

\* ---------------------------------------------------------------------
\* the receivers that were created
Subscribed == {r \in ReceiverIds : receivers[r].state # "none"}

\* recv reported a gap to the owner of r
Lagged(r) == \E i \in DOMAIN receivers[r].got : receivers[r].got[i].kind = "Lagged"

\* C25: the caller of emit gets on the same way whatever the receivers do:
\* emit is never blocked, with no receiver, with receivers that consume, lag
\* or were dropped, and never fails; the caller emits all its events in
\* order and ends with Ok.
C25_EmitNeverBlocksNorFails ==
  /\ emitter \in {"running", "Ok"}
  /\ emitter = "running" => ENABLED Emit
  /\ emitted = [i \in 1..Len(emitted) |-> i]
  /\ (emitter = "Ok") <=> (Len(emitted) = MaxEmits)

\* the caller ended with Ok although one event found no receiver, one
\* receiver lagged and was given up, and another was dropped
C25_Witness ==
  /\ emitter = "Ok"
  /\ Len(sent) < Len(emitted)
  /\ \E r \in ReceiverIds : receivers[r].state = "stopped"
  /\ \E r \in ReceiverIds : receivers[r].state = "dropped"

\* the events among what recv returned to the owner of r
Received(r) ==
  [i \in DOMAIN receivers[r].got |-> receivers[r].got[i].event]

\* C26: a receiver that never fell behind by more than the capacity got
\* the events emitted after its subscribe call, each once and in emission
\* order, and none emitted before; when it has caught up it has got all of
\* them; this whatever the other receivers did.
C26_ReceiverIsIndependentCursor ==
  \A r \in Subscribed :
    ~Lagged(r)
    => /\ Len(receivers[r].got) <= Len(emitted) - receivers[r].since
       /\ Received(r) = [i \in DOMAIN receivers[r].got |-> emitted[receivers[r].since + i]]
       /\ (receivers[r].state = "active" /\ receivers[r].next = Len(sent))
            => Len(receivers[r].got) = Len(emitted) - receivers[r].since

\* a receiver that subscribed after the first event got the later ones
\* while another receiver lagged
C26_Witness ==
  \E r, o \in Subscribed :
    /\ r # o
    /\ Lagged(o)
    /\ ~Lagged(r)
    /\ receivers[r].since >= 1
    /\ Len(receivers[r].got) >= 2
    /\ receivers[r].next = Len(sent)

\* C27: a consumer of the repository (the WebSocket forwarder of the
\* server, the event listener of the CLI) whose receiver lagged goes on
\* receiving: the gap does not end its loop.
C27_ConsumerSurvivesLag ==
  \A r \in Subscribed :
    (receivers[r].owner \in Consumers /\ Lagged(r)) => receivers[r].state # "stopped"

\* ---------------------------------------------------------------------
\* C30: a run under RetryWorkflow goes the way of a run under StopWorkflow:
\* the policy takes the same branch, the first NodeFailed ends the run with
\* the error naming that node and nothing is started after it, every node
\* is started at most once and WorkflowStarted is emitted once (the
\* workflow is not run again).  max_attempts is not read by the executor
\* and is not part of the model's RetryWorkflow.
C30_RetryBehavesAsStop ==
  workflow.settings.on_error = "RetryWorkflow"
  => /\ OnError("RetryWorkflow") = OnError("StopWorkflow")
     /\ Cardinality(EventsOf("WorkflowStarted")) <= 1
     /\ \A n \in AllIds : Cardinality(NodeEventsOf("NodeStarted", n)) <= 1
     /\ Cardinality(EventsOf("NodeFailed")) <= 1
     /\ \A i \in EventsOf("NodeFailed") :
          /\ \A j \in EventsOf("NodeStarted") : j < i
          /\ pc \in {"complete", "returned"}
          /\ result = ErrResult("Execution", events[i].node_id)
          /\ events[i].node_id \notin completed

\* under RetryWorkflow the failure of the first node of a chain has ended
\* the run, the second node never started
C30_Witness ==
  /\ workflow.settings.on_error = "RetryWorkflow"
  /\ pc = "returned"
  /\ FailedNodes # {}
  /\ \E n \in graph.nodes : n \notin StartedNodes
  /\ Cardinality(EventsOf("WorkflowStarted")) = 1
  /\ \E i \in EventsOf("WorkflowCompleted") : ~events[i].success

\* ======================================================================
\* FlowRuntime (runtime.rs): callers of register_workflow, execute_workflow
\* and execute on one runtime.  Every run started through the runtime goes
\* through WorkflowExecutor::execute with the runtime's registry and bus;
\* the locals of a run are the record calls[c].run.
\* ======================================================================
RuntimeSettings == [max_execution_time_ms |-> {}, on_error |-> "StopWorkflow"]

\* The workflows handed to the runtime, both under the id "A": a chain of
\* two nodes, and a single node that fails.
RuntimeWorkflows ==
  { [id |-> "A",
     nodes |-> <<[id |-> 1, node_type |-> "ok"], [id |-> 2, node_type |-> "ok"]>>,
     connections |-> <<Conn(1, "out", 2, "in")>>, settings |-> RuntimeSettings],
    [id |-> "A",
     nodes |-> <<[id |-> 3, node_type |-> "fail"]>>,
     connections |-> <<>>, settings |-> RuntimeSettings] }

\* the ids execute_workflow is asked for: the one workflows are registered
\* under and one nothing is registered under
RuntimeWorkflowIds == {wf.id : wf \in RuntimeWorkflows} \cup {"B"}

\* the inputs a caller passes: each caller its own
InputsOf(c) == ("message" :> c)

\* runtime.rs:29: the cap the runtime builds its executor with
RuntimeMaxParallel == MaxParallel

NodeIdsOf(wf) == {wf.nodes[i].id : i \in DOMAIN wf.nodes}

\* ------------------------------------------------------- tokio::sync::RwLock
\* The lock hands out its permits in the order they were asked for: a
\* request that cannot be served at once waits in a queue, and a request
\* made while another one waits queues up behind it.
Holds(l, c) == c \in l.readers \cup l.writer

CanServe(l, mode) ==
  IF mode = "read" THEN l.writer = {}
  ELSE l.writer = {} /\ l.readers = {}

\* serve the requests at the head of the queue for as long as they can be
RECURSIVE Serve(_)
Serve(l) ==
  IF l.waiting = <<>> \/ ~CanServe(l, Head(l.waiting).mode) THEN l
  ELSE LET w == Head(l.waiting)
       IN  Serve([readers |-> IF w.mode = "read" THEN l.readers \cup {w.caller} ELSE l.readers,
                  writer  |-> IF w.mode = "write" THEN {w.caller} ELSE l.writer,
                  waiting |-> Tail(l.waiting)])

\* read().await and write().await: join the queue, be served in turn
Acquire(l, c, mode) ==
  Serve([l EXCEPT !.waiting = Append(@, [caller |-> c, mode |-> mode])])

\* the guard is dropped
Release(l, c) ==
  Serve([l EXCEPT !.readers = @ \ {c}, !.writer = @ \ {c}])

\* ------------------------------------------------------------ the callers
NewCall(c, op, arg) == [NoCaller EXCEPT !.op = op, !.arg = arg]

\* register_workflow, line 47: ask for the write lock.  The registrar makes
\* its calls one after the other, one for every workflow
CallRegisterWorkflow(c, wf) ==
  /\ c = Registrar
  /\ calls[c].pc \in {"none", "returned"}
  /\ wf \notin Range(registrations)
  /\ calls' = [calls EXCEPT ![c] = [NewCall(c, "register_workflow", wf) EXCEPT !.pc = "insert"]]
  /\ lock' = Acquire(lock, c, "write")
  /\ UNCHANGED <<workflows, registrations, published, drawn>>
  /\ UNCHANGED notruntime

\* mutant: a workflow registered under a taken id is dropped
register_workflow_KeepFirst(ws, wf) == ws @@ (wf.id :> wf)

\* register_workflow, line 48: HashMap::insert replaces the entry of the id
register_workflow(ws, wf) == (wf.id :> wf) @@ ws

\* register_workflow, lines 48-49: insert under the write lock, drop the guard
InsertWorkflow(c) ==
  /\ calls[c].op = "register_workflow"
  /\ calls[c].pc = "insert"
  /\ Holds(lock, c)
  /\ workflows' = register_workflow(workflows, calls[c].arg)
  /\ registrations' = Append(registrations, calls[c].arg)
  /\ lock' = Release(lock, c)
  /\ calls' = [calls EXCEPT ![c].pc = "returned", ![c].ret = [status |-> "Ok"]]
  /\ UNCHANGED <<published, drawn>>
  /\ UNCHANGED notruntime

\* execute_workflow, line 57: ask for the read lock
CallExecuteWorkflow(c, id) ==
  /\ c \in CallerIds
  /\ calls[c].pc = "none"
  /\ calls' = [calls EXCEPT ![c] = [NewCall(c, "execute_workflow", id) EXCEPT
                                      !.pc = "lookup", !.inputs = InputsOf(c)]]
  /\ lock' = Acquire(lock, c, "read")
  /\ UNCHANGED <<workflows, registrations, published, drawn>>
  /\ UNCHANGED notruntime

\* the locals of an execute call at its first line
NewRun(wf) == [NoRun EXCEPT !.pc = "idle", !.task = [n \in NodeIdsOf(wf) |-> NoTask]]

\* execute_workflow, lines 58-66: an id without an entry returns NotFound
\* through the "?" and drops the guard; otherwise the entry is handed to the
\* executor by reference, the guard held for as long as the run lasts
Lookup(c) ==
  /\ calls[c].op = "execute_workflow"
  /\ calls[c].pc = "lookup"
  /\ Holds(lock, c)
  /\ IF calls[c].arg \notin DOMAIN workflows
       THEN /\ calls' = [calls EXCEPT ![c].pc = "returned",
                                      ![c].seen = Len(registrations),
                                      ![c].ret = ErrResult("NotFound", NIL)]
            /\ lock' = Release(lock, c)
       ELSE /\ calls' = [calls EXCEPT ![c].pc = "running",
                                      ![c].seen = Len(registrations),
                                      ![c].workflow = workflows[calls[c].arg],
                                      ![c].run = NewRun(workflows[calls[c].arg])]
            /\ lock' = lock
  /\ UNCHANGED <<workflows, registrations, published, drawn>>
  /\ UNCHANGED notruntime

\* execute, lines 70-78: the executor is called with the caller's workflow
CallExecute(c, wf) ==
  /\ c \in CallerIds
  /\ calls[c].pc = "none"
  /\ calls' = [calls EXCEPT ![c] = [NewCall(c, "execute", wf.id) EXCEPT
                                      !.pc = "running", !.inputs = InputsOf(c),
                                      !.workflow = wf, !.run = NewRun(wf)]]
  /\ UNCHANGED <<workflows, registrations, lock, published, drawn>>
  /\ UNCHANGED notruntime

\* ------------------------------------- WorkflowExecutor::execute, per call
\* mutant: every run is given the same execution id
Uuid_new_v4_Fixed(n) == 1

\* executor.rs:33, ExecutionId::new_v4(): an id no earlier draw returned
\* (n ids were drawn before)
Uuid_new_v4(n) == n + 1

\* an event as the run of caller c sends it: under the run's execution id
Stamp(e, id, c) == [event |-> [e EXCEPT !.execution_id = id], by |-> c]

\* a step of the run of caller c that leaves its locals as r2; a run that
\* returns ends the call, and execute_workflow drops its read guard
RunStep(c, r2) ==
  /\ calls' = [calls EXCEPT ![c].run = r2,
                            ![c].pc = IF r2.pc = "returned" THEN "returned" ELSE @,
                            ![c].ret = IF r2.pc = "returned" THEN r2.result ELSE @]
  /\ lock' = IF r2.pc = "returned" /\ Holds(lock, c) THEN Release(lock, c) ELSE lock

\* executor.rs lines 33-46
RunBegin(c) ==
  /\ calls[c].pc = "running"
  /\ calls[c].run.pc = "idle"
  /\ LET id == Uuid_new_v4(drawn)
         b  == build_graph(calls[c].workflow)
     IN  /\ drawn' = drawn + 1
         /\ published' = Append(published, Stamp(WorkflowStarted, id, c))
         /\ RunStep(c, [calls[c].run EXCEPT
                          !.execution_id = id,
                          !.graph = b.graph,
                          !.pc = IF b.err # NONE THEN "returned" ELSE "instantiate",
                          !.result = IF b.err # NONE THEN ErrResult(b.err, NIL) ELSE @])
  /\ UNCHANGED <<workflows, registrations>>
  /\ UNCHANGED notruntime

\* executor.rs lines 48-70 and 125-140
RunInstantiate(c) ==
  /\ calls[c].pc = "running"
  /\ calls[c].run.pc = "instantiate"
  /\ LET e == CreateNodes(calls[c].workflow.nodes)
     IN  RunStep(c, IF e # NONE
                      THEN [calls[c].run EXCEPT !.pc = "returned",
                                                !.result = ErrResult(e, NIL)]
                      ELSE [calls[c].run EXCEPT
                              !.pc = "schedule",
                              !.node_instances = calls[c].run.graph.nodes,
                              !.node_outputs = IF DOMAIN calls[c].inputs # {}
                                                 THEN (NIL :> calls[c].inputs)
                                                 ELSE EmptyMap])
  /\ UNCHANGED <<workflows, registrations, published, drawn>>
  /\ UNCHANGED notruntime

\* executor.rs lines 146-191, one pass over the ready nodes of the run of c
RECURSIVE RunSpawnLoop(_, _, _)
RunSpawnLoop(c, ready, st) ==
  IF ready = <<>> THEN st
  ELSE LET node_id == Head(ready)
           node_spec == find_node(calls[c].workflow, node_id)
       IN  IF AtCapacity(st.running, RuntimeMaxParallel) THEN st
           ELSE IF node_spec = {} \/ node_id \notin st.node_instances
             THEN [st EXCEPT !.err = ErrResult("NodeNotFound", node_id)]
           ELSE RunSpawnLoop(c, Tail(ready),
                  [st EXCEPT
                     !.node_instances = node_instances_remove(@, node_id),
                     !.published = Append(@, Stamp(NodeStarted(node_id,
                                               (CHOOSE x \in node_spec : TRUE).node_type),
                                             calls[c].run.execution_id, c)),
                     !.running = @ \cup {node_id},
                     !.task[node_id] =
                        [state |-> "executing",
                         inputs |-> collect_node_inputs(node_id, calls[c].workflow,
                                                        calls[c].run.node_outputs),
                         cancelled |-> FALSE]])

\* the ExecutionResult of the run of c when its loop ends
RunOkResult(c) ==
  [OkResult(calls[c].run.node_outputs, calls[c].run.completed, calls[c].workflow)
     EXCEPT !.execution_id = calls[c].run.execution_id]

\* executor.rs lines 142-216
RunSchedule(c) ==
  /\ calls[c].pc = "running"
  /\ calls[c].run.pc = "schedule"
  /\ \E ready \in Perms(find_ready_nodes(calls[c].run.graph, calls[c].run.completed)) :
       LET st == RunSpawnLoop(c, ready,
                   [running |-> calls[c].run.running,
                    node_instances |-> calls[c].run.node_instances,
                    published |-> published, task |-> calls[c].run.task, err |-> Pending])
       IN  /\ published' = st.published
           /\ RunStep(c, [calls[c].run EXCEPT
                            !.running = st.running,
                            !.node_instances = st.node_instances,
                            !.task = st.task,
                            !.pc = IF st.err.status = "Err" \/ st.running = {}
                                     THEN "complete" ELSE "wait",
                            !.result = IF st.err.status = "Err" THEN st.err
                                       ELSE IF st.running = {} THEN RunOkResult(c)
                                       ELSE @])
  /\ UNCHANGED <<workflows, registrations, drawn>>
  /\ UNCHANGED notruntime

\* executor.rs lines 218-269: take a finished task of the run of c
RunCollect(c) ==
  /\ calls[c].pc = "running"
  /\ calls[c].run.pc = "wait"
  /\ \E n \in calls[c].run.running :
       LET r == calls[c].run
           state == r.task[n].state
       IN  /\ state \in {"ok", "err", "panic"}
           /\ IF state = "panic"
                THEN /\ published' = published
                     /\ RunStep(c, [r EXCEPT !.running = @ \ {n}, !.pc = "complete",
                                             !.result = ErrResult("Execution", NIL)])
              ELSE IF state = "ok"
                THEN /\ published' = Append(published,
                                       Stamp(NodeCompleted(n, NodeOutput(n)), r.execution_id, c))
                     /\ RunStep(c, [r EXCEPT !.running = @ \ {n}, !.pc = "schedule",
                                             !.node_outputs = (n :> NodeOutput(n)) @@ @,
                                             !.completed = @ \cup {n}])
              ELSE /\ published' = Append(published,
                                     Stamp(NodeFailed(n, NodeErr("ExecutionFailed", 0)),
                                           r.execution_id, c))
                   /\ RunStep(c, IF OnError(calls[c].workflow.settings.on_error) = "return"
                                   THEN [r EXCEPT !.running = @ \ {n}, !.pc = "complete",
                                                  !.result = ErrResult("Execution", n)]
                                   ELSE [r EXCEPT !.running = @ \ {n}, !.pc = "schedule",
                                                  !.completed = @ \cup {n}])
  /\ UNCHANGED <<workflows, registrations, drawn>>
  /\ UNCHANGED notruntime

\* executor.rs lines 72-83
RunComplete(c) ==
  /\ calls[c].pc = "running"
  /\ calls[c].run.pc = "complete"
  /\ published' = Append(published,
                    Stamp(WorkflowCompleted(calls[c].run.result.status = "Ok"),
                          calls[c].run.execution_id, c))
  /\ RunStep(c, [calls[c].run EXCEPT !.pc = "returned"])
  /\ UNCHANGED <<workflows, registrations, drawn>>
  /\ UNCHANGED notruntime

\* executor.rs lines 193-205: the task of node n of the run of c ends; the
\* task goes on after the call that spawned it has returned
RunNodeFinish(c, n) ==
  /\ n \in DOMAIN calls[c].run.task
  /\ calls[c].run.task[n].state = "executing"
  /\ calls' = [calls EXCEPT ![c].run.task[n].state =
                 ExecuteOutcome((CHOOSE x \in find_node(calls[c].workflow, n) : TRUE).node_type)]
  /\ UNCHANGED <<workflows, registrations, lock, published, drawn>>
  /\ UNCHANGED notruntime

RuntimeNext ==
  \/ \E wf \in RuntimeWorkflows : CallRegisterWorkflow(Registrar, wf)
  \/ InsertWorkflow(Registrar)
  \/ \E c \in CallerIds, id \in RuntimeWorkflowIds : CallExecuteWorkflow(c, id)
  \/ \E c \in CallerIds : Lookup(c)
  \/ \E c \in CallerIds, wf \in RuntimeWorkflows : CallExecute(c, wf)
  \/ \E c \in CallerIds : RunBegin(c)
  \/ \E c \in CallerIds : RunInstantiate(c)
  \/ \E c \in CallerIds : RunSchedule(c)
  \/ \E c \in CallerIds : RunCollect(c)
  \/ \E c \in CallerIds : RunComplete(c)
  \/ \E c \in CallerIds, n \in AllIds : RunNodeFinish(c, n)

RuntimeSpec == Idle /\ [][RuntimeNext]_vars

\* ------------------------------------------------------------------ C28
\* the events the run of caller c sent
PublishedBy(c) == {i \in DOMAIN published : published[i].by = c}

\* the registrations under the id caller c asked for that were made before
\* its lookup
RegisteredBefore(c) ==
  {i \in 1..calls[c].seen : registrations[i].id = calls[c].arg}

LookedUp(c) ==
  /\ calls[c].op = "execute_workflow"
  /\ calls[c].pc \in {"running", "returned"}

\* C28: execute_workflow(id, inputs) runs the workflow most recently
\* registered under id, whatever register_workflow calls came before; for an
\* id nothing was registered under it returns WorkflowError::NotFound, no
\* node instantiated and no event emitted.
C28_ExecuteWorkflowRunsLastRegistered ==
  \A c \in CallerIds :
    LookedUp(c) =>
      IF RegisteredBefore(c) = {}
        THEN /\ calls[c].pc = "returned"
             /\ calls[c].ret = ErrResult("NotFound", NIL)
             /\ calls[c].run = NoRun
             /\ PublishedBy(c) = {}
        ELSE LET last == CHOOSE i \in RegisteredBefore(c) :
                           \A j \in RegisteredBefore(c) : j <= i
             IN  /\ calls[c].workflow = registrations[last]
                 /\ calls[c].run.pc # "none"
                 /\ DOMAIN calls[c].run.task = NodeIdsOf(registrations[last])
                 /\ \A i \in PublishedBy(c) :
                      "node_id" \in DOMAIN published[i].event
                        => published[i].event.node_id \in NodeIdsOf(registrations[last])
                 /\ (calls[c].ret.status = "Err" => calls[c].ret.error # "NotFound")

\* one caller ran the second workflow registered under its id to the end,
\* the other was refused an id nothing is registered under
C28_Witness ==
  /\ Len(registrations) = 2
  /\ LookedUp("first") /\ calls["first"].seen = 2 /\ calls["first"].arg = "A"
  /\ calls["first"].run.pc = "returned"
  /\ PublishedBy("first") # {}
  /\ LookedUp("second") /\ calls["second"].arg = "B"
  /\ calls["second"].ret = ErrResult("NotFound", NIL)

\* ------------------------------------------------------------------ C24
\* caller c has a run, begun or over
HasRun(c) == calls[c].run.execution_id # 0

\* the events about a node that the run of caller c sent
NodeEventsBy(c, type) ==
  {published[i].event.node_id :
     i \in {k \in PublishedBy(c) : published[k].event.type = type}}

\* the tables and the result of the run of caller c hold what its own
\* workflow and inputs put there
OwnTables(c) ==
  LET r   == calls[c].run
      wf  == calls[c].workflow
      ids == NodeIdsOf(wf)
  IN  /\ r.completed \subseteq ids
      /\ r.running \subseteq ids
      /\ r.completed = NodeEventsBy(c, "NodeCompleted")
      /\ DOMAIN r.node_outputs \subseteq ids \cup {NIL}
      /\ DOMAIN r.node_outputs \ {NIL} = r.completed
      /\ NIL \in DOMAIN r.node_outputs => r.node_outputs[NIL] = InputsOf(c)
      /\ \A n \in DOMAIN r.node_outputs \ {NIL} : r.node_outputs[n] = NodeOutput(n)
      /\ \A n \in ids : r.task[n].state # "none"
           => r.task[n].inputs = collect_node_inputs(n, wf, r.node_outputs)
      /\ NodeEventsBy(c, "NodeStarted") \subseteq ids
      /\ NodeEventsBy(c, "NodeFailed") \subseteq ids
      /\ r.pc = "returned" =>
           /\ calls[c].ret = r.result
           /\ IF \A i \in DOMAIN wf.nodes : wf.nodes[i].node_type = "ok"
                THEN r.result = [status |-> "Ok", execution_id |-> r.execution_id,
                                 outputs |-> r.node_outputs,
                                 completed_nodes |-> Len(wf.nodes),
                                 total_nodes |-> Len(wf.nodes)]
                ELSE /\ r.result.status = "Err"
                     /\ r.result.node_id \in ids

\* C24: two execute calls running at the same time on one runtime get
\* different execution ids, every event on the shared bus carries the id of
\* the run that sent it, and the completed set, the output table and the
\* result of each run come from its own workflow and inputs only, whatever the
\* interleaving of the two runs.
C24_ConcurrentRunsAreIsolated ==
  /\ \A c, d \in CallerIds :
       c # d /\ HasRun(c) /\ HasRun(d)
         => calls[c].run.execution_id # calls[d].run.execution_id
  /\ \A i \in DOMAIN published :
       published[i].event.execution_id = calls[published[i].by].run.execution_id
  /\ \A c \in CallerIds : HasRun(c) => OwnTables(c)

\* the two callers ran different workflows to the end, the events of the
\* one sent between the events of the other
C24_Witness ==
  /\ \A c \in CallerIds : calls[c].op = "execute" /\ calls[c].run.pc = "returned"
  /\ calls["first"].workflow # calls["second"].workflow
  /\ \E i, j, k \in DOMAIN published :
       /\ i < j /\ j < k
       /\ published[i].by = "first" /\ published[j].by = "second"
       /\ published[k].by = "first"
       /\ published[j].event.type = "NodeStarted"

\* ======================================================================
\* Declared settings the scheduler does not read: the workflows of
\* DeclaredSpec carry WorkflowSettings.max_parallel_nodes and, on every
\* node, NodeSpec.retry_policy, next to the fields the executor reads.
\* ======================================================================
\* Option<RetryPolicy>: none, or a policy asking for a second attempt
RetryChoices == {{}, {[max_attempts |-> 2, delay_ms |-> 0]}}

DeclaredInit ==
  /\ \E sh \in Shapes, oe \in ErrorHandlings, ms \in TimeoutChoices,
        cap \in 1..MaxParallel, rp \in RetryChoices :
       \E types \in [DOMAIN sh.ids -> NodeTypes] :
         /\ Cardinality({i \in DOMAIN types : types[i] # "ok"}) <= MaxFaulty
         /\ workflow = [nodes |-> [i \in DOMAIN sh.ids |->
                                     [id |-> sh.ids[i], node_type |-> types[i],
                                      retry_policy |-> rp]],
                        connections |-> sh.connections,
                        settings |-> [max_execution_time_ms |-> ms,
                                      max_parallel_nodes |-> cap,
                                      on_error |-> oe]]
  /\ max_parallel \in 0..MaxParallel
  /\ initial_inputs = EmptyMap
  /\ ExecStart
  /\ RegistryInit
  /\ BusInit
  /\ RuntimeInit
  /\ ServerInit

\* the steps of the run; its node tasks send no NodeEvent
DeclaredSpec == DeclaredInit /\ [][LiveNext]_vars

\* ------------------------------------------------------------------ C31
\* C31: the number of node tasks in flight during a run never exceeds the
\* max_parallel_nodes of the WorkflowSettings of the workflow that runs.
C31_RunningWithinDeclaredCap ==
  Cardinality(running) <= workflow.settings.max_parallel_nodes

\* ------------------------------------------------------------------ C32
\* the scheduler took the result of the task of n, which was a join error
JoinFailureTaken(n) == task[n].state = "panic" /\ n \notin running

\* C32: a node task that ends with a join failure (it panicked or was
\* aborted) is handled as a node failure: NodeFailed is emitted for the node
\* and on_error is applied, so that under ContinueOnError the node is
\* settled and the run goes on.
C32_JoinFailureIsNodeFailure ==
  \A n \in AllIds :
    JoinFailureTaken(n) =>
      /\ NodeEventsOf("NodeFailed", n) # {}
      /\ workflow.settings.on_error = "ContinueOnError" =>
           /\ n \in completed
           /\ result.status # "Err"

\* ------------------------------------------------------------------ C33
\* C33: at every pass of the scheduling loop the ready set computed is
\* exactly the nodes that are not in completed, not running, and whose
\* predecessors are all in completed: a node whose task is in flight is not
\* found ready again.
C33_ReadyExcludesRunning ==
  pc = "schedule" =>
    find_ready_nodes(graph, completed) =
      {n \in graph.nodes : /\ n \notin completed
                           /\ n \notin running
                           /\ dependencies_met(graph, completed, n)}

\* ------------------------------------------------------------------ C34
\* the nodes that declare a retry_policy
WithRetryPolicy ==
  {workflow.nodes[i].id : i \in {k \in DOMAIN workflow.nodes :
                                   workflow.nodes[k].retry_policy # {}}}

ReturnsNodeNotFound == result.status = "Err" /\ result.error = "NodeNotFound"

\* C35: execute returns NodeNotFound if and only if the from_node or the
\* to_node of some connection is not the id of a node of the workflow: a
\* workflow whose connections all resolve never ends with NodeNotFound.
C35_NodeNotFoundIffMissingEndpoint ==
  pc = "returned" => (ReturnsNodeNotFound <=> HasMissingEndpoint)

\* ------------------------------------------------------------------ C36
\* C36: whenever execute returns Ok, and WorkflowCompleted says success,
\* every node of the workflow was started and reached a terminal state, that
\* is completed_nodes = total_nodes; for every cap of the executor, a cap of
\* 0 included, and every on_error policy.
C36_OkMeansEveryNodeRan ==
  (pc = "returned" /\ result.status = "Ok") =>
    /\ result.completed_nodes = result.total_nodes
    /\ \A n \in WorkflowIds :
         /\ NodeEventsOf("NodeStarted", n) # {}
         /\ NodeEventsOf("NodeCompleted", n) \cup NodeEventsOf("NodeFailed", n) # {}

\* ------------------------------------------------------------------ C37
\* a run started by execute_workflow is in flight
RunInFlight(c) ==
  /\ calls[c].op = "execute_workflow"
  /\ calls[c].pc = "running"

\* caller c asked for the lock and was not given it yet
WaitsForLock(c) ==
  /\ calls[c].pc \in {"insert", "lookup"}
  /\ ~Holds(lock, c)

\* C37: register_workflow does not wait for the execute_workflow runs in
\* flight: while such a run is executing, a register_workflow call made
\* meanwhile goes through, and so do the execute_workflow calls made after it.
C37_RegisterDoesNotWaitForRuns ==
  (\E c \in CallerIds : RunInFlight(c)) =>
    /\ ~WaitsForLock(Registrar)
    /\ \A d \in CallerIds : ~WaitsForLock(d)

\* ------------------------------------------------------------------ C38
\* execute, lines 48-61: the instances whose initialize returned Ok so far:
\* the nodes declared before the first one that create_node or initialize
\* fails for, once build_graph has succeeded and the loop has run
InitializedNodes ==
  IF pc \in {"idle", "instantiate"} \/ build_graph(workflow).err # NONE THEN {}
  ELSE LET bad == {i \in DOMAIN workflow.nodes : Defective(workflow.nodes[i].node_type)}
       IN  {workflow.nodes[i].id : i \in {k \in DOMAIN workflow.nodes :
                                            \A j \in bad : k < j}}

\* The number of times the call has invoked Node::shutdown on the instance
\* of n.  Neither execute nor execute_dag calls it: an instance is dropped
\* with node_instances or with the task it was moved into.
ShutdownCalls(n) == 0

\* C38: for every node instance whose initialize succeeded during an execute
\* call, shutdown is called exactly once before execute returns: on the
\* success path, on a node failure, and when the creation or the initialize
\* of a later node fails.
C38_ShutdownOncePerInitialized ==
  pc = "returned" => \A n \in InitializedNodes : ShutdownCalls(n) = 1

\* ======================================================================
\* Two runs of one workflow with the same inputs: the second caller repeats
\* the execute call of the first.  Both runs go through the steps of
\* WorkflowExecutor::execute; the nodes give the same result whenever they
\* are executed (no timeout is set).
\* ======================================================================
\* the workflows run twice: two independent nodes, or a chain of two, each
\* node succeeding or failing, under every on_error policy
TwinWorkflows ==
  { [id |-> "A",
     nodes |-> <<[id |-> 1, node_type |-> t1], [id |-> 2, node_type |-> t2]>>,
     connections |-> conns,
     settings |-> [max_execution_time_ms |-> {}, on_error |-> oe]] :
       t1 \in {"ok", "fail"}, t2 \in {"ok", "fail"},
       conns \in {<<>>, <<Conn(1, "out", 2, "in")>>}, oe \in ErrorHandlings }

\* runtime.rs lines 70-78: caller c makes the call caller d made, with the
\* same workflow and the same inputs
CallExecuteAgain(c, d) ==
  /\ c \in CallerIds /\ d \in CallerIds /\ c # d
  /\ calls[c].pc = "none"
  /\ calls[d].op = "execute"
  /\ calls' = [calls EXCEPT ![c] = [NewCall(c, "execute", calls[d].arg) EXCEPT
                                      !.pc = "running", !.inputs = calls[d].inputs,
                                      !.workflow = calls[d].workflow,
                                      !.run = NewRun(calls[d].workflow)]]
  /\ UNCHANGED <<workflows, registrations, lock, published, drawn>>
  /\ UNCHANGED notruntime

TwinNext ==
  \/ \E wf \in TwinWorkflows : CallExecute("first", wf)
  \/ CallExecuteAgain("second", "first")
  \/ \E c \in CallerIds : RunBegin(c)
  \/ \E c \in CallerIds : RunInstantiate(c)
  \/ \E c \in CallerIds : RunSchedule(c)
  \/ \E c \in CallerIds : RunCollect(c)
  \/ \E c \in CallerIds : RunComplete(c)
  \/ \E c \in CallerIds, n \in AllIds : RunNodeFinish(c, n)

TwinSpec == Idle /\ [][TwinNext]_vars

\* ------------------------------------------------------------------ C39
\* what a caller sees of a run that returned: Ok with the output table and
\* the count of completed nodes, or the kind of the error
Outcome(ret) ==
  IF ret.status = "Ok"
    THEN [status |-> "Ok", outputs |-> ret.outputs,
          completed_nodes |-> ret.completed_nodes]
    ELSE [status |-> "Err", error |-> ret.error]

\* C39: for a fixed workflow, fixed initial inputs and nodes whose results
\* are a function of their inputs, two runs end with the same outcome, Ok or
\* the same kind of error, and when Ok with the same output table and the
\* same completed_nodes, whatever the order the node tasks finish in and the
\* order the ready set is iterated in.
C39_RunsAreDeterministic ==
  (\A c \in CallerIds : calls[c].op = "execute" /\ calls[c].pc = "returned")
    => Outcome(calls["first"].ret) = Outcome(calls["second"].ret)

\* ======================================================================
\* flowserver (flowserver/src/main.rs): the handlers of the workflow API on
\* one AppState, with a client that sends a request when the one before was
\* answered.  The execute handler runs the workflow through
\* FlowRuntime::execute_workflow as the caller "first" of the runtime.
\* ======================================================================
\* largest number of requests the client sends
MaxRequests == 3

\* the caller of the runtime the execute handler is
Handler == "first"

\* the client may send its next request
ClientMaySend ==
  /\ request = NoRequest
  /\ Len(answers) < MaxRequests

Answer(kind, id, status, sent_events) ==
  [kind |-> kind, id |-> id, status |-> status, events |-> sent_events]

\* create_workflow, lines 78-101: insert into AppState.workflows, register
\* the stored workflow with the runtime, answer 201 Created
HttpCreate(wf) ==
  /\ ClientMaySend
  /\ CanServe(lock, "write") /\ lock.waiting = <<>>
  /\ app_workflows' = (wf.id :> wf) @@ app_workflows
  /\ workflows' = register_workflow(workflows, wf)
  /\ registrations' = Append(registrations, wf)
  /\ answers' = Append(answers, Answer("create", wf.id, 201, 0))
  /\ UNCHANGED <<request, lock, calls, published, drawn>>
  /\ UNCHANGED notserver

\* HashMap::remove
MapRemove(map, key) == [k \in DOMAIN map \ {key} |-> map[k]]

\* delete_workflow, lines 120-140: remove from AppState.workflows; 200 when
\* there was an entry, 404 otherwise
HttpDelete(id) ==
  /\ ClientMaySend
  /\ app_workflows' = MapRemove(app_workflows, id)
  /\ answers' = Append(answers,
                  Answer("delete", id, IF id \in DOMAIN app_workflows THEN 200 ELSE 404, 0))
  /\ UNCHANGED request
  /\ UNCHANGED rtvars
  /\ UNCHANGED notserver

\* execute_workflow, lines 142-157: convert the inputs and call
\* runtime.execute_workflow, which asks for the read lock
HttpExecute(id) ==
  /\ ClientMaySend
  /\ request' = [kind |-> "execute", id |-> id, since |-> Len(published)]
  /\ calls' = [calls EXCEPT ![Handler] =
                 [NewCall(Handler, "execute_workflow", id) EXCEPT
                    !.pc = "lookup", !.inputs = InputsOf(Handler)]]
  /\ lock' = Acquire(lock, Handler, "read")
  /\ UNCHANGED <<app_workflows, answers>>
  /\ UNCHANGED <<workflows, registrations, published, drawn>>
  /\ UNCHANGED notserver

\* execute_workflow, lines 157-178: 200 with the counts for Ok, 500 with the
\* text of the error for Err
HttpExecuteAnswer ==
  /\ request.kind = "execute"
  /\ calls[Handler].pc = "returned"
  /\ answers' = Append(answers,
                  Answer("execute", request.id,
                         IF calls[Handler].ret.status = "Ok" THEN 200 ELSE 500,
                         Len(published) - request.since))
  /\ request' = NoRequest
  /\ UNCHANGED app_workflows
  /\ UNCHANGED rtvars
  /\ UNCHANGED notserver

ServerNext ==
  \/ \E wf \in RuntimeWorkflows : HttpCreate(wf)
  \/ \E id \in RuntimeWorkflowIds : HttpDelete(id)
  \/ \E id \in RuntimeWorkflowIds : HttpExecute(id)
  \/ HttpExecuteAnswer
  \/ Lookup(Handler)
  \/ RunBegin(Handler)
  \/ RunInstantiate(Handler)
  \/ RunSchedule(Handler)
  \/ RunCollect(Handler)
  \/ RunComplete(Handler)
  \/ \E n \in AllIds : RunNodeFinish(Handler, n)

ServerSpec == Idle /\ [][ServerNext]_vars

\* ------------------------------------------------------------------ C40
\* the request answered at position k came after a successful DELETE of its
\* workflow, with no creation of the workflow in between
DeletedBefore(k) ==
  \E j \in 1..(k - 1) :
    /\ answers[j].kind = "delete"
    /\ answers[j].id = answers[k].id
    /\ answers[j].status = 200
    /\ \A i \in (j + 1)..(k - 1) :
         ~(answers[i].kind = "create" /\ answers[i].id = answers[k].id)

\* C40: after DELETE /api/workflows/{id} was answered with success, a
\* following POST /api/workflows/{id}/execute does not run the workflow and
\* reports it as not found, until the workflow is created again.
C40_DeletedWorkflowIsNotRun ==
  \A k \in DOMAIN answers :
    (answers[k].kind = "execute" /\ DeletedBefore(k)) =>
      /\ answers[k].status = 404
      /\ answers[k].events = 0

====
